---- MODULE Spec2Model ----
(***************************************************************************)
(* Model of the `errors` attribute macro of erro-rs (src/src/lib.rs).      *)
(*                                                                         *)
(* One macro invocation is modelled: the attribute arguments and the       *)
(* annotated item are the inputs, the emitted token stream (or a panic, or *)
(* a compile error) is the result.  Identifiers are sequences of           *)
(* one-character strings so that the string transformations of the naming  *)
(* step (str::replace, heck's to_camel_case) are computed, not assumed.    *)
(***************************************************************************)
EXTENDS Integers, Sequences, FiniteSets, TLC

VARIABLES
    attr,    \* the attribute arguments (attr_args, line 111)
    item,    \* the annotated item (line 109)
    pc,      \* where the expansion stands: "start", "collected", "done",
             \* "panicked", "compile_error"
    errors,  \* attr_args_parsed: HashMap<Path, Option<Lit>> (lines 112-117)
    order,   \* the order in which that map hands out its entries
    out,     \* the generated items: <<>> or <<the quote! block>> (lines 171-209)
    panic    \* the panic message, if any

vars == <<attr, item, pc, errors, order, out, panic>>

(***************************************************************************)
(* Bounds.                                                                 *)
(***************************************************************************)
\* Longest attribute argument list explored.
MaxArgs == 2

(***************************************************************************)
(* Characters and strings.                                                 *)
(***************************************************************************)
LowerAlpha ==
    <<"a","b","c","d","e","f","g","h","i","j","k","l","m",
      "n","o","p","q","r","s","t","u","v","w","x","y","z">>

UpperAlpha ==
    <<"A","B","C","D","E","F","G","H","I","J","K","L","M",
      "N","O","P","Q","R","S","T","U","V","W","X","Y","Z">>

Digits == {"0","1","2","3","4","5","6","7","8","9"}

\* char::is_lowercase / char::is_uppercase on the ASCII range.
IsLower(c) == \E i \in 1..Len(LowerAlpha) : LowerAlpha[i] = c

IsUpper(c) == \E i \in 1..Len(UpperAlpha) : UpperAlpha[i] = c

\* char::to_uppercase / char::to_lowercase on the ASCII range.
ToUpper(c) ==
    IF IsLower(c)
    THEN UpperAlpha[CHOOSE i \in 1..Len(LowerAlpha) : LowerAlpha[i] = c]
    ELSE c

ToLower(c) ==
    IF IsUpper(c)
    THEN LowerAlpha[CHOOSE i \in 1..Len(UpperAlpha) : UpperAlpha[i] = c]
    ELSE c

\* The pattern given to str::replace at line 162.
ErrorPat == <<"E","r","r","o","r">>

\* s.replace("Error", ""): one left-to-right scan over the original text,
\* removing each non-overlapping match.
RECURSIVE ReplaceError(_)
ReplaceError(s) ==
    IF Len(s) < Len(ErrorPat) THEN s
    ELSE IF SubSeq(s, 1, Len(ErrorPat)) = ErrorPat
         THEN ReplaceError(SubSeq(s, Len(ErrorPat) + 1, Len(s)))
         ELSE <<s[1]>> \o ReplaceError(Tail(s))

\* heck's capitalize: first character upper-cased, the rest lower-cased.
Capitalize(w) ==
    IF Len(w) = 0 THEN <<>>
    ELSE <<ToUpper(w[1])>> \o [i \in 1..(Len(w) - 1) |-> ToLower(w[i + 1])]

\* heck's transform loop over one word, with capitalize as the word action
\* and no separator between words.  i is the position (1-based), init the
\* start of the pending word, mode the case of the characters seen so far.
RECURSIVE Transform(_, _, _, _, _)
Transform(word, i, init, mode, acc) ==
    IF i > Len(word) THEN acc
    ELSE LET c == word[i] IN
      IF c = "_"
      THEN Transform(word, i + 1, IF init = i THEN init + 1 ELSE init, mode, acc)
      ELSE IF i < Len(word)
      THEN LET next == word[i + 1]
               next_mode == IF IsLower(c) THEN "Lowercase"
                            ELSE IF IsUpper(c) THEN "Uppercase"
                            ELSE mode
           IN IF next = "_" \/ (next_mode = "Lowercase" /\ IsUpper(next))
              THEN Transform(word, i + 1, i + 1, "Boundary",
                             acc \o Capitalize(SubSeq(word, init, i)))
              ELSE IF mode = "Uppercase" /\ IsUpper(c) /\ IsLower(next)
              THEN Transform(word, i + 1, i, "Boundary",
                             acc \o Capitalize(SubSeq(word, init, i - 1)))
              ELSE Transform(word, i + 1, init, next_mode, acc)
      ELSE acc \o Capitalize(SubSeq(word, init, Len(word)))

\* str::to_camel_case.  The text of an identifier is a single word for
\* unicode_words (letters, digits and underscores do not separate words).
to_camel_case(s) == Transform(s, 1, 1, "Boundary", <<>>)

\* Ident::new, reached through format_ident!, panics unless the text is a
\* well-formed identifier.
IsValidIdent(s) ==
    /\ Len(s) > 0
    /\ s[1] \notin Digits
    /\ \A i \in 1..Len(s) : IsLower(s[i]) \/ IsUpper(s[i]) \/ s[i] \in Digits \/ s[i] = "_"


(***************************************************************************)
(* Inputs: paths, literals, attribute arguments, annotated items.          *)
(***************************************************************************)
Seg_std == <<"s","t","d">>

Seg_io == <<"i","o">>

Seg_num == <<"n","u","m">>

Seg_bincode == <<"b","i","n","c","o","d","e">>

Seg_serde_json == <<"s","e","r","d","e","_","j","s","o","n">>

Seg_Error == <<"E","r","r","o","r">>

Seg_ParseIntError == <<"P","a","r","s","e","I","n","t","E","r","r","o","r">>

\* syn::Path values (their segments' identifiers, in order).
Path_std_io_Error == <<Seg_std, Seg_io, Seg_Error>>

Path_io_Error == <<Seg_io, Seg_Error>>

Path_bincode_Error == <<Seg_bincode, Seg_Error>>

Path_std_num_ParseIntError == <<Seg_std, Seg_num, Seg_ParseIntError>>

Path_serde_json_Error == <<Seg_serde_json, Seg_Error>>

Path_Error == <<Seg_Error>>

Paths ==
    {Path_std_io_Error, Path_io_Error, Path_bincode_Error,
     Path_std_num_ParseIntError, Path_serde_json_Error, Path_Error}

\* Alias texts: a plain identifier, one that camel-casing or the removal of
\* "Error" would change, and the empty string.
Alias_Codec == <<"C","o","d","e","c">>

Alias_io_Error == <<"i","o","_","E","r","r","o","r">>

Alias_empty == <<>>

Aliases == {Alias_Codec, Alias_io_Error, Alias_empty}

\* Option<Lit>: None, Some(Lit::Str(..)), Some(Lit::Int(..)).
NoLit == [kind |-> "None", value |-> <<>>]

StrLit(v) == [kind |-> "Str", value |-> v]

IntLit == [kind |-> "Int", value |-> <<"5">>]

\* syn::NestedMeta values.
MetaPath(p) == [kind |-> "Path", path |-> p, lit |-> NoLit]

MetaNameValue(p, l) == [kind |-> "NameValue", path |-> p, lit |-> l]

MetaList(p) == [kind |-> "List", path |-> p, lit |-> NoLit]

NestedLit(l) == [kind |-> "Lit", path |-> <<>>, lit |-> l]

\* An argument that is no NestedMeta at all (`path = some_ident`): the
\* attribute does not parse as AttributeArgs.
Unparsable == [kind |-> "Unparsable", path |-> <<>>, lit |-> NoLit]

Args ==
    {MetaPath(p) : p \in Paths}
    \cup {MetaNameValue(p, StrLit(a)) :
            p \in {Path_std_io_Error, Path_bincode_Error}, a \in Aliases}
    \cup {MetaNameValue(p, IntLit) : p \in {Path_std_io_Error, Path_Error}}
    \cup {MetaList(Path_io_Error), NestedLit(StrLit(Alias_Codec)), Unparsable}

RECURSIVE SeqsUpTo(_, _)
SeqsUpTo(S, n) ==
    IF n = 0 THEN {<<>>}
    ELSE LET shorter == SeqsUpTo(S, n - 1)
         IN shorter \cup {Append(s, x) : s \in {t \in shorter : Len(t) = n - 1}, x \in S}

AttrLists == SeqsUpTo(Args, MaxArgs)

\* Annotated items.  A function carries the fields parse_fn reads from
\* syn::ItemFn; absent optional parts are "" (or <<>> for the return type).
Fn_read_int ==
    [kind |-> "fn", attrs |-> <<>>, vis |-> "",
     constness |-> FALSE, asyncness |-> FALSE, unsafety |-> FALSE, abi |-> "",
     ident |-> <<"r","e","a","d","_","i","n","t">>, generics |-> "",
     inputs |-> <<"path: impl AsRef<Path>">>, variadic |-> FALSE,
     output |-> <<"i128">>, where_clause |-> "", block |-> "{ read }"]

Fn_load ==
    [kind |-> "fn", attrs |-> <<"#[inline]">>, vis |-> "pub",
     constness |-> FALSE, asyncness |-> TRUE, unsafety |-> FALSE, abi |-> "",
     ident |-> <<"l","o","a","d">>, generics |-> "",
     inputs |-> <<>>, variadic |-> FALSE,
     output |-> <<>>, where_clause |-> "", block |-> "{ load }"]

Fn_convert ==
    [kind |-> "fn", attrs |-> <<>>, vis |-> "pub(crate)",
     constness |-> TRUE, asyncness |-> FALSE, unsafety |-> TRUE, abi |-> "",
     ident |-> <<"c","o","n","v","e","r","t">>, generics |-> "<T>",
     inputs |-> <<"a: T", "b: T">>, variadic |-> FALSE,
     output |-> <<"T">>, where_clause |-> "where T: Clone", block |-> "{ convert }"]

Fn_log ==
    [kind |-> "fn", attrs |-> <<>>, vis |-> "",
     constness |-> FALSE, asyncness |-> FALSE, unsafety |-> TRUE, abi |-> "extern \"C\"",
     ident |-> <<"l","o","g">>, generics |-> "",
     inputs |-> <<"fmt: *const u8">>, variadic |-> TRUE,
     output |-> <<>>, where_clause |-> "", block |-> "{ log }"]

\* An item that is not a function (`struct Foo;`).
Struct_Foo ==
    [kind |-> "struct", attrs |-> <<>>, vis |-> "",
     constness |-> FALSE, asyncness |-> FALSE, unsafety |-> FALSE, abi |-> "",
     ident |-> <<"F","o","o">>, generics |-> "",
     inputs |-> <<>>, variadic |-> FALSE,
     output |-> <<>>, where_clause |-> "", block |-> ""]

Items == {Fn_read_int, Fn_load, Fn_convert, Fn_log, Struct_Foo}


(***************************************************************************)
(* errors: the attribute arguments become a HashMap<Path, Option<Lit>>.    *)
(***************************************************************************)
\* parse_macro_input!(attr as AttributeArgs) succeeds.
AttrParses(a) == \A i \in 1..Len(a) : a[i].kind # "Unparsable"

\* The closure with nested lists taken for paths too.
FilterMapKeepsLists(a) ==
    IF a.kind \in {"Path", "List"} THEN <<[key |-> a.path, value |-> NoLit]>>
    ELSE IF a.kind = "NameValue" THEN <<[key |-> a.path, value |-> a.lit]>>
    ELSE <<>>

\* The closure given to filter_map: the entry an argument yields, if any.
FilterMap(a) ==
    IF a.kind = "Path" THEN <<[key |-> a.path, value |-> NoLit]>>
    ELSE IF a.kind = "NameValue" THEN <<[key |-> a.path, value |-> a.lit]>>
    ELSE <<>>

\* An insert that leaves a key already present alone (entry().or_insert()).
InsertKeepsFirst(m, k, v) ==
    [x \in (DOMAIN m) \cup {k} |-> IF x \in DOMAIN m THEN m[x] ELSE v]

\* HashMap::insert: a key already present keeps one entry and takes the new
\* value.
Insert(m, k, v) == [x \in (DOMAIN m) \cup {k} |-> IF x = k THEN v ELSE m[x]]

\* collect(): the entries are inserted in argument order.
RECURSIVE Collect(_, _)
Collect(a, m) ==
    IF Len(a) = 0 THEN m
    ELSE LET e == FilterMap(Head(a))
         IN Collect(Tail(a), IF Len(e) = 0 THEN m ELSE Insert(m, e[1].key, e[1].value))

\* The orders in which a HashMap may hand out its entries: the hasher is
\* seeded at random, so any arrangement of the keys can be the one.
IterationOrders(m) ==
    {s \in [1..Cardinality(DOMAIN m) -> DOMAIN m] :
        \A i, j \in DOMAIN s : i # j => s[i] # s[j]}

\* A parse that takes any item for a function.
ParsesAnyItem(it) == it.kind \in {"fn", "struct"}

\* syn::parse::<ItemFn>(item) is Ok.
ParsesAsItemFn(it) == it.kind = "fn"

(***************************************************************************)
(* parse_fn: names.                                                        *)
(***************************************************************************)
RECURSIVE Concat(_)
Concat(ss) == IF Len(ss) = 0 THEN <<>> ELSE Head(ss) \o Concat(Tail(ss))

\* The derived name with the removal of "Error" left out.
DerivedNameKeepsError(err) ==
    Concat([i \in 1..Len(err) |-> to_camel_case(err[i])])

\* The else branch of line 156: every segment without "Error", camel-cased,
\* collected into one String.
DerivedName(err) ==
    Concat([i \in 1..Len(err) |-> to_camel_case(ReplaceError(err[i]))])

\* A name that camel-cases the alias as well.
VariantNameCamelCasesAlias(err, alias) ==
    IF alias.kind = "Str" THEN to_camel_case(alias.value) ELSE DerivedName(err)

\* The text handed to format_ident! for one map entry.
VariantName(err, alias) ==
    IF alias.kind = "Str" THEN alias.value ELSE DerivedName(err)

\* error_variants: one name per entry, in the map's iteration order.
ErrorVariants(m, ord) == [i \in 1..Len(ord) |-> VariantName(ord[i], m[ord[i]])]

\* errors.keys(): the keys in the same iteration order.
Keys(m, ord) == [i \in 1..Len(ord) |-> ord[i]]

ErrorSuffix == <<"E","r","r","o","r">>

\* error_ident: the function's name camel-cased, followed by "Error".
ErrorIdent(ident) == to_camel_case(ident) \o ErrorSuffix

\* Every format_ident! of parse_fn gets a well-formed identifier.
IdentsValid(it, m) ==
    /\ IsValidIdent(ErrorIdent(it.ident))
    /\ \A k \in DOMAIN m : IsValidIdent(VariantName(k, m[k]))

(***************************************************************************)
(* parse_fn: the emitted items.                                            *)
(***************************************************************************)
\* #(#error_variants (#errors_one)),* : the enum's variants.
EnumVariants(names, keys) ==
    [i \in 1..Len(names) |-> [name |-> names[i], ty |-> keys[i]]]

\* An arm that writes a prefix before the payload.
DisplayArmWithPrefix(v) == [variant |-> v, fmt |-> <<"error: ", "{}">>]

\* One match arm of the Display impl: Self::V(e) => write!(f, "{}", e).
DisplayArm(v) == [variant |-> v, fmt |-> <<"{}">>]

DisplayArms(names) == [i \in 1..Len(names) |-> DisplayArm(names[i])]

\* From impls that take the variant names in the opposite order.
FromImplsMisaligned(keys, names) ==
    [i \in 1..Len(keys) |->
        [from |-> keys[i], param |-> keys[i], variant |-> names[Len(names) + 1 - i]]]

\* One From impl: impl From<T> for E { fn from(e: T) -> Self { Self::V(e) } }.
FromImpls(keys, names) ==
    [i \in 1..Len(keys) |-> [from |-> keys[i], param |-> keys[i], variant |-> names[i]]]

Tok(k, v) == [k |-> k, v |-> v]

OptTok(k, s) == IF s = "" THEN <<>> ELSE <<Tok(k, <<s>>)>>

FlagTok(k, b) == IF b THEN <<Tok(k, <<k>>)>> ELSE <<>>

\* #(#x),* : the elements with a comma between each two, none after the last.
RECURSIVE CommaSeparated(_, _)
CommaSeparated(k, xs) ==
    IF Len(xs) = 0 THEN <<>>
    ELSE IF Len(xs) = 1 THEN <<Tok(k, <<xs[1]>>)>>
    ELSE <<Tok(k, <<xs[1]>>), Tok(",", <<",">>)>> \o CommaSeparated(k, Tail(xs))

\* output: the declared return type, or the empty tuple.
Output(it) == IF Len(it.output) = 0 THEN "()" ELSE it.output[1]

\* -> std::result::Result<#output, #error_ident>
ResultType(it) ==
    <<Tok("->", <<"->">>),
      Tok("type", <<"std::result::Result", Output(it)>> \o ErrorIdent(it.ident))>>

\* Lines 206-208: the function as it is written out again, token group by
\* token group, in the order of the quote! template.
EmittedFn(it) ==
    [i \in 1..Len(it.attrs) |-> Tok("attr", <<it.attrs[i]>>)]
    \o OptTok("vis", it.vis)
    \o FlagTok("const", it.constness)
    \o FlagTok("async", it.asyncness)
    \o FlagTok("unsafe", it.unsafety)
    \o OptTok("abi", it.abi)
    \o <<Tok("fn", <<"fn">>)>>
    \o <<Tok("ident", it.ident)>>
    \o OptTok("generics", it.generics)
    \o <<Tok("(", <<"(">>)>>
    \o CommaSeparated("input", it.inputs)
    \o FlagTok("...", it.variadic)
    \o <<Tok(")", <<")">>)>>
    \o OptTok("where", it.where_clause)
    \o ResultType(it)
    \o <<Tok("block", <<it.block>>)>>

\* The whole quote! block.
Emit(it, m, ord) ==
    [error_ident  |-> ErrorIdent(it.ident),
     vis          |-> it.vis,
     variants     |-> EnumVariants(ErrorVariants(m, ord), Keys(m, ord)),
     display_arms |-> DisplayArms(ErrorVariants(m, ord)),
     from_impls   |-> FromImpls(Keys(m, ord), ErrorVariants(m, ord)),
     error_impl   |-> TRUE,
     function     |-> EmittedFn(it)]

(***************************************************************************)
(* The invocation as a state machine.                                      *)
(***************************************************************************)
NoPanic == "none"

PanicNotFn == "The #[errors] macro can only be used on functions"

PanicIdent == "format_ident!: not a valid identifier"

Init ==
    /\ attr \in AttrLists
    /\ item \in Items
    /\ pc = "start"
    /\ errors = <<>>
    /\ order = <<>>
    /\ out = <<>>
    /\ panic = NoPanic

\* Line 111, failing: parse_macro_input! returns the compile error and
\* nothing else is generated.
ParseAttrFails ==
    /\ pc = "start"
    /\ ~AttrParses(attr)
    /\ pc' = "compile_error"
    /\ UNCHANGED <<attr, item, errors, order, out, panic>>

\* Lines 111-117: the arguments are parsed, filtered and collected.
CollectArgs ==
    /\ pc = "start"
    /\ AttrParses(attr)
    /\ errors' = Collect(attr, <<>>)
    /\ order' \in IterationOrders(errors')
    /\ pc' = "collected"
    /\ UNCHANGED <<attr, item, out, panic>>

\* Lines 119-124 on an item that is no function: the panic.
NotAFunction ==
    /\ pc = "collected"
    /\ ~ParsesAsItemFn(item)
    /\ pc' = "panicked"
    /\ panic' = PanicNotFn
    /\ UNCHANGED <<attr, item, errors, order, out>>

\* Lines 119-121 and 127-209: parse_fn runs to its end.
ParseFn ==
    /\ pc = "collected"
    /\ ParsesAsItemFn(item)
    /\ IdentsValid(item, errors)
    /\ out' = <<Emit(item, errors, order)>>
    /\ pc' = "done"
    /\ UNCHANGED <<attr, item, errors, order, panic>>

\* Lines 154-164: a format_ident! of parse_fn panics.
ParseFnPanics ==
    /\ pc = "collected"
    /\ ParsesAsItemFn(item)
    /\ ~IdentsValid(item, errors)
    /\ pc' = "panicked"
    /\ panic' = PanicIdent
    /\ UNCHANGED <<attr, item, errors, order, out>>

Next ==
    \/ ParseAttrFails
    \/ CollectArgs
    \/ NotAFunction
    \/ ParseFn
    \/ ParseFnPanics

Spec == Init /\ [][Next]_vars


(***************************************************************************)
(* Vocabulary of the properties.                                           *)
(***************************************************************************)
Done == pc = "done"

IsFn == item.kind = "fn"

\* An argument the specification calls well-formed: a bare path, or a path
\* assigned to a string literal.
WellFormed(a) == a.kind = "Path" \/ (a.kind = "NameValue" /\ a.lit.kind = "Str")

\* An argument that names a path at the top level, whatever it is assigned.
NamesPath(a) == a.kind \in {"Path", "NameValue"}

Aliased(a) == a.kind = "NameValue" /\ a.lit.kind = "Str"

AllWellFormed == \A i \in 1..Len(attr) : WellFormed(attr[i])

DistinctPaths ==
    \A i, j \in 1..Len(attr) : i # j => attr[i].path # attr[j].path

DeclaredPaths == {attr[i].path : i \in {j \in 1..Len(attr) : NamesPath(attr[j])}}

\* The last argument that names path p.
LastOf(p) ==
    attr[CHOOSE i \in 1..Len(attr) :
            /\ NamesPath(attr[i]) /\ attr[i].path = p
            /\ \A j \in (i + 1)..Len(attr) : ~(NamesPath(attr[j]) /\ attr[j].path = p)]

Variants == out[1].variants

Payloads == {Variants[i].ty : i \in 1..Len(Variants)}

\* The variant names the documentation and the specification give, written
\* out by hand.
ExpectedName(p) ==
    CASE p = Path_std_io_Error -> <<"S","t","d","I","o">>
      [] p = Path_io_Error -> <<"I","o">>
      [] p = Path_bincode_Error -> <<"B","i","n","c","o","d","e">>
      [] p = Path_std_num_ParseIntError -> <<"S","t","d","N","u","m","P","a","r","s","e","I","n","t">>
      [] p = Path_serde_json_Error -> <<"S","e","r","d","e","J","s","o","n">>
      [] OTHER -> <<"?">>

\* The texts a payload's own Display may produce.
PayloadTexts == {"No such file or directory", "invalid digit found in string"}

\* write!(f, fmt, e) where e displays as text.
Format(fmt, text) == [i \in 1..Len(fmt) |-> IF fmt[i] = "{}" THEN text ELSE fmt[i]]

\* What the emitted Display impl writes for the value V(e): the first arm
\* whose pattern names V is taken.
Display(e, v, text) ==
    LET i == CHOOSE k \in 1..Len(e.display_arms) :
                /\ e.display_arms[k].variant = v
                /\ \A l \in 1..(k - 1) : e.display_arms[l].variant # v
    IN Format(e.display_arms[i].fmt, text)

\* The annotated function as syn prints an ItemFn, with only the return type
\* replaced by Result<R, E>.
FnWithResult(it) ==
    [i \in 1..Len(it.attrs) |-> Tok("attr", <<it.attrs[i]>>)]
    \o OptTok("vis", it.vis)
    \o FlagTok("const", it.constness)
    \o FlagTok("async", it.asyncness)
    \o FlagTok("unsafe", it.unsafety)
    \o OptTok("abi", it.abi)
    \o <<Tok("fn", <<"fn">>)>>
    \o <<Tok("ident", it.ident)>>
    \o OptTok("generics", it.generics)
    \o <<Tok("(", <<"(">>)>>
    \o CommaSeparated("input", it.inputs)
    \o (IF it.variadic /\ Len(it.inputs) > 0 THEN <<Tok(",", <<",">>)>> ELSE <<>>)
    \o FlagTok("...", it.variadic)
    \o <<Tok(")", <<")">>)>>
    \o <<Tok("->", <<"->">>),
         Tok("type", <<"std::result::Result",
                       IF Len(it.output) = 0 THEN "()" ELSE it.output[1]>>
                     \o to_camel_case(it.ident) \o <<"E","r","r","o","r">>)>>
    \o OptTok("where", it.where_clause)
    \o <<Tok("block", <<it.block>>)>>

(***************************************************************************)
(* C1                                                                      *)
(***************************************************************************)
\* C1: for every list of well-formed arguments (here: with pairwise distinct
\* paths), the enum has one variant per argument and the i-th variant is
\* the one of the i-th argument.
C1_DeclarationOrder ==
    (Done /\ AllWellFormed /\ DistinctPaths) =>
        /\ Len(Variants) = Len(attr)
        /\ \A i \in 1..Len(attr) : Variants[i].ty = attr[i].path

C3_DerivedNames ==
    Done =>
        /\ \A i \in 1..Len(Variants) :
              ~Aliased(LastOf(Variants[i].ty)) =>
                  Variants[i].name = ExpectedName(Variants[i].ty)
        /\ item = Fn_read_int => out[1].error_ident = <<"R","e","a","d","I","n","t","E","r","r","o","r">>

\* Case study 1: std::io::Error, std::num::ParseIntError on read_int.
C3_Witness ==
    /\ Done
    /\ item = Fn_read_int
    /\ attr = <<MetaPath(Path_std_io_Error), MetaPath(Path_std_num_ParseIntError)>>

C5_OneConversionPerSource ==
    Done =>
        LET e == out[1] IN
        /\ Len(e.from_impls) = Len(e.variants)
        /\ Len(e.display_arms) = Len(e.variants)
        /\ \A t \in DeclaredPaths :
              Cardinality({i \in 1..Len(e.from_impls) : e.from_impls[i].from = t}) = 1
        /\ \A i \in 1..Len(e.from_impls) :
              /\ e.from_impls[i].from \in DeclaredPaths
              /\ e.from_impls[i].param = e.from_impls[i].from
              /\ e.variants[i].ty = e.from_impls[i].from
              /\ e.variants[i].name = e.from_impls[i].variant
              /\ e.display_arms[i].variant = e.from_impls[i].variant

\* A finished expansion with two differently named variants.
C5_Witness ==
    /\ Done
    /\ Len(Variants) = 2
    /\ Variants[1].name # Variants[2].name

(***************************************************************************)
(* C6                                                                      *)
(***************************************************************************)
\* C6: the Display impl has one arm per variant, and for every variant and
\* every payload text it writes exactly the payload's text.
C6_DisplayTransparent ==
    Done =>
        LET e == out[1] IN
        /\ Len(e.display_arms) = Len(e.variants)
        /\ \A i \in 1..Len(e.variants) :
              /\ e.display_arms[i].variant = e.variants[i].name
              /\ \A text \in PayloadTexts :
                    Display(e, e.variants[i].name, text) = <<text>>

\* A finished expansion with two variants to format.
C6_Witness ==
    /\ Done
    /\ Len(out[1].display_arms) = 2
    /\ out[1].display_arms[1].variant # out[1].display_arms[2].variant

(***************************************************************************)
(* C7                                                                      *)
(***************************************************************************)
\* C7: the emitted function is the annotated one with only its return type
\* changed, to Result<R, E>.
C7_OnlyReturnTypeChanges ==
    Done => out[1].function = FnWithResult(item)

(***************************************************************************)
(* C8                                                                      *)
(***************************************************************************)
\* C8: on an item that is no function nothing is ever emitted and the
\* expansion can only end in the abort; on a function the abort "can only
\* be used on functions" is never reached.
C8_NonFunctionAborts ==
    /\ ~IsFn =>
          /\ out = <<>>
          /\ pc # "done"
          /\ pc = "panicked" => panic = PanicNotFn
          /\ pc = "collected" => ENABLED NotAFunction
    /\ IsFn =>
          /\ panic # PanicNotFn
          /\ ~ENABLED NotAFunction

\* The attribute on `struct Foo;` has panicked.
C8_Witness ==
    /\ item = Struct_Foo
    /\ pc = "panicked"
    /\ panic = PanicNotFn

(***************************************************************************)
(* C9                                                                      *)
(***************************************************************************)
\* C9 as stated: only bare paths and paths assigned to string literals
\* contribute variants; every other argument contributes none.
C9_MalformedDropped ==
    Done =>
        Payloads = {attr[i].path : i \in {j \in 1..Len(attr) : WellFormed(attr[j])}}

\* C9 as amended: bare literals and nested lists are dropped without an
\* error and contribute no variant, arm or conversion; a path assigned to a
\* literal that is no string is kept and named like a bare path.  Without
\* any kept argument the expansion cannot abort on a function: the enum has
\* no variant and the function returns Result<OriginalReturn, ..Error>.
C9_LiteralsAndListsDropped ==
    /\ Done =>
          LET e == out[1] IN
          /\ Payloads = DeclaredPaths
          /\ {e.from_impls[i].from : i \in 1..Len(e.from_impls)} = DeclaredPaths
          /\ Len(e.display_arms) = Cardinality(DeclaredPaths)
          /\ \A i \in 1..Len(e.variants) :
                LastOf(e.variants[i].ty).kind = "NameValue"
                /\ LastOf(e.variants[i].ty).lit.kind = "Int"
                => e.variants[i].name = ExpectedName(e.variants[i].ty)
          /\ DeclaredPaths = {} =>
                /\ e.variants = <<>>
                /\ \E k \in 1..Len(e.function) :
                      /\ e.function[k].k = "type"
                      /\ SubSeq(e.function[k].v, 1, 2) =
                            <<"std::result::Result",
                              IF Len(item.output) = 0 THEN "()" ELSE item.output[1]>>
    /\ (IsFn /\ DeclaredPaths = {}) =>
          /\ panic = NoPanic
          /\ pc = "collected" => ENABLED ParseFn

\* A finished expansion of a nested list and a path assigned to a number.
C9_Witness ==
    /\ Done
    /\ attr = <<MetaList(Path_io_Error), MetaNameValue(Path_std_io_Error, IntLit)>>

(***************************************************************************)
(* C10                                                                     *)
(***************************************************************************)
\* C10: on a function whose arguments are all bare paths, naming never
\* aborts the expansion.
C10_NamingTotal ==
    (IsFn /\ \A i \in 1..Len(attr) : attr[i].kind = "Path") => pc # "panicked"

====
